---- MODULE Spec2Model ----
(***************************************************************************)
(* Model of src/yt3.py: the PubSubHubbub subscription manager, the         *)
(* webhook endpoint and the keyword poller, with their two JSON stores.    *)
(*                                                                         *)
(* Strings whose characters the code inspects (channel ids, handles) are   *)
(* sequences of characters.  Python's None is <<>> for those and the       *)
(* token NoneKw for a keyword.                                             *)
(***************************************************************************)
EXTENDS Integers, Sequences, FiniteSets, TLC

VARIABLES
    subsFile,              \* contents of active_subscriptions.json
    active_subscriptions,  \* the module-level map loaded at import
    last,                  \* the last call of the subscription side and its outcome
    seenFile,              \* contents of seen_videos.json
    seen_videos,           \* the module-level set
    stop_polling,          \* the module-level flag
    pc,                    \* where poll_youtube_for_keyword stands
    items,                 \* items of the current response not yet iterated
    cur,                   \* the item the for-loop body is working on
    hist,                  \* history of the poller: what was returned, written, notified
    peer_subscriptions,    \* active_subscriptions of a second process on the same file
    rules,                 \* src/notif.py: the rules the tweet filter service holds
    monitor,               \* src/notif.py: MONITOR_HANDLE and MONITOR_KEYWORD
    twcall,                \* src/notif.py: the requests of the last monitor_twitter call
    win                    \* the poller's clock, its query window and one upstream item

subVars  == <<subsFile, active_subscriptions, last>>
pollVars == <<seenFile, seen_videos, stop_polling, pc, items, cur, hist>>
peerVars == <<peer_subscriptions>>
twVars   == <<rules, monitor, twcall>>
winVars  == <<win>>
vars     == <<subsFile, active_subscriptions, last,
              seenFile, seen_videos, stop_polling, pc, items, cur, hist,
              peer_subscriptions, rules, monitor, twcall, win>>

(***************************************************************************)
(* Values                                                                  *)
(***************************************************************************)
None == <<>>
UC1  == <<"U", "C", "1">>
UC2  == <<"U", "C", "2">>
Chan == {UC1, UC2}

\* what a caller may type as handle or identifier
HandleA     == <<"@", "a">>
HandleB     == <<"b">>
Identifiers == {UC1, UC2, HandleA, HandleB}

NoneKw    == "<None>"
Keywords  == {NoneKw, "launch"}
Callbacks == {"cb1", "cb2"}
Videos    == {"v1", "v2"}

(***************************************************************************)
(* JSON values of the subscriptions file.  kind "dict" is an object whose  *)
(* members are ents; kind "list" is an array, kept as the set of its       *)
(* members (DOMAIN ents); kind "none" is a file json.load cannot read      *)
(* (missing, truncated, unreadable).  An entry of shape "obj" is a         *)
(* {keyword, callback_url} object, shape "str" a JSON string.              *)
(***************************************************************************)
Sub(kw, cb) == [shape |-> "obj", keyword |-> kw, callback_url |-> cb]
StrEntry    == [shape |-> "str", keyword |-> NoneKw, callback_url |-> ""]
ListItem    == [shape |-> "item", keyword |-> NoneKw, callback_url |-> ""]
NoEntries   == [c \in {} |-> ListItem]
NoFile      == [kind |-> "none", ents |-> NoEntries]
EmptyDict   == [kind |-> "dict", ents |-> NoEntries]

Dict(f)  == [kind |-> "dict", ents |-> f]
List(S)  == [kind |-> "list", ents |-> [c \in S |-> ListItem]]

\* the contents another process or an editor may leave in the file
EditStates ==
    {NoFile,
     List({UC1}),
     Dict([c \in {UC1} |-> StrEntry]),
     Dict([c \in {UC1} |-> Sub("launch", "cb1")]),
     Dict([c \in {UC1} |-> Sub("", "cb1")]),
     Dict([c \in {UC2} |-> Sub(NoneKw, "cb2")])}

\* a membership test against the subscriptions file, not the given container
Contains_File(store, c) ==
    subsFile.kind # "none" /\ c \in DOMAIN subsFile.ents

\* x in container
Contains(store, c) == c \in DOMAIN store.ents

\* a store that keeps the entry a key already has
SetItem_Mut(store, key, val) ==
    Dict([c \in DOMAIN store.ents \cup {key} |->
            IF c \in DOMAIN store.ents THEN store.ents[c] ELSE val])

\* container[key] = val, on an object
SetItem(store, key, val) ==
    Dict([c \in DOMAIN store.ents \cup {key} |->
            IF c = key THEN val ELSE store.ents[c]])

\* del container[key], on an object
DelItem(store, key) ==
    Dict([c \in DOMAIN store.ents \ {key} |-> store.ents[c]])

\* Python's truth value of a string or None
Truthy(s)   == Len(s) > 0

\* a test for "is not None" in place of the truth value
TruthyKw_Mut(k) == k # NoneKw

TruthyKw(k) == k # NoneKw /\ k # ""

\* a test that takes whatever does not start with '@' for a channel id
StartsWithUC_Mut(s) == s[1] # "@"

\* s.startswith("UC")
StartsWithUC(s) == Len(s) >= 2 /\ s[1] = "U" /\ s[2] = "C"

(***************************************************************************)
(* Subscription store                                                      *)
(***************************************************************************)
load_subscriptions(file) ==
    IF file.kind = "none" THEN EmptyDict ELSE file

SaveOutcomes == {"ok", "open_fails", "write_fails"}

\* a save that reads the file first and adds the given entries to it
save_subscriptions_Mut(data, file, out) ==
    CASE out = "ok"          ->
             Dict([c \in DOMAIN file.ents \cup DOMAIN data.ents |->
                     IF c \in DOMAIN data.ents THEN data.ents[c] ELSE file.ents[c]])
      [] out = "open_fails"  -> file
      [] out = "write_fails" -> NoFile

\* open(..., "w") truncates; a failure while dumping leaves a truncated file
save_subscriptions(data, file, out) ==
    CASE out = "ok"          -> data
      [] out = "open_fails"  -> file
      [] out = "write_fails" -> NoFile

(***************************************************************************)
(* Channel resolver                                                        *)
(***************************************************************************)
\* the step at which one resolution ends
ResolverEnv == {"no_key", "search_error", "search_empty",
                "lookup_error", "lookup_empty", "found"}

\* handle = f'@{handle}' unless it starts with '@'
AddAt(handle) == IF handle[1] = "@" THEN handle ELSE <<"@">> \o handle

\* the channel the upstream search names for a query (stable upstream data)
Upstream(q) == IF q = HandleA THEN UC1 ELSE UC2

get_channel_id_from_handle(handle, env) ==
    IF env = "no_key" THEN None
    ELSE IF env \in {"search_error", "search_empty"} THEN None
    ELSE IF env \in {"lookup_error", "lookup_empty"} THEN None
    ELSE Upstream(AddAt(handle))

(***************************************************************************)
(* Keyword check                                                           *)
(***************************************************************************)
TranscriptEnv == {"no_key", "request_fails", "no_transcript", "miss", "hit"}

check_video_for_keyword(video_id, keyword, env) == env = "hit"

HubOutcomes == {"2xx", "http_error", "conn_error"}

(***************************************************************************)
(* youtube_webhook: its inputs                                             *)
(***************************************************************************)
\* request.args.get('hub.challenge'): NoChallenge when the parameter is absent
NoChallenge == "<absent>"
Challenges  == {NoChallenge, "", "abc123"}

\* A request body: xml is FALSE when ET.fromstring raises; entry says whether
\* the feed has an atom:entry child; videoId, title and channelId are the
\* text of the entry's namespaced children, Absent when the child is missing.
Absent   == "<absent>"
AbsentCh == <<"-">>
Malformed == [xml |-> FALSE, entry |-> FALSE, videoId |-> Absent,
              title |-> Absent, channelId |-> AbsentCh]
NoEntry   == [Malformed EXCEPT !.xml = TRUE]
Bodies ==
    {Malformed, NoEntry}
        \cup [xml : {TRUE}, entry : {TRUE}, videoId : {Absent, "v1"},
              title : {Absent, "t"}, channelId : {AbsentCh, UC1, UC2}]

\* a test for "is not None" in place of the truth value
EntryTruthy_Mut(b) == b.entry

\* bool(entry): an Element is true when it has children
EntryTruthy(b) ==
    b.entry /\ (b.videoId # Absent \/ b.title # Absent \/ b.channelId # AbsentCh)

\* one of the three .find(...) calls returns None, whose .text raises
FieldMissing(b) ==
    b.videoId = Absent \/ b.title = Absent \/ b.channelId = AbsentCh

(***************************************************************************)
(* The record of the last call: its inputs and what it did                 *)
(***************************************************************************)
Quiet ==
    [op |-> "init", ident |-> None, kw |-> NoneKw, cb |-> "",
     challenge |-> NoChallenge, push |-> Malformed, transcript |-> "none",
     before |-> "none",
     chan |-> None, resolves |-> 0, hub |-> "none", topic |-> None,
     ret |-> "none", raised |-> FALSE,
     status |-> 0, body |-> "", mimetype |-> "",
     checks |-> 0, checkVid |-> "", checkKw |-> NoneKw, matched |-> FALSE]

\* what the store held for a key before a call, against the value written
Before(store, key, val) ==
    IF ~Contains(store, key) THEN "absent"
    ELSE IF store.ents[key] = val THEN "same" ELSE "different"

(***************************************************************************)
(* subscribe_to_youtube_channel                                            *)
(***************************************************************************)
\* the body of the function; base is the record of the call so far
SubscribeCall(base, handle, cb, kw, renv, sout, hub) ==
    LET channel_id == get_channel_id_from_handle(handle, renv)
        call == [base EXCEPT !.chan = channel_id, !.resolves = 1]
    IN  IF ~Truthy(channel_id)
        THEN /\ last' = [call EXCEPT !.ret = "failure"]
             /\ UNCHANGED <<subsFile, active_subscriptions>>
        ELSE IF active_subscriptions.kind # "dict"
        THEN \* item assignment on a list raises TypeError, not caught
             /\ last' = [call EXCEPT !.ret = "raised", !.raised = TRUE]
             /\ UNCHANGED <<subsFile, active_subscriptions>>
        ELSE LET new == SetItem(active_subscriptions, channel_id, Sub(kw, cb))
             IN  /\ active_subscriptions' = new
                 /\ subsFile' = save_subscriptions(new, subsFile, sout)
                 /\ last' = [call EXCEPT
                        !.kw = kw, !.cb = cb,
                        !.before = Before(active_subscriptions, channel_id, Sub(kw, cb)),
                        !.hub = hub, !.topic = channel_id,
                        !.ret = IF hub = "2xx" THEN "success" ELSE "failure"]

Subscribe(handle, cb, kw, renv, sout, hub) ==
    SubscribeCall([Quiet EXCEPT !.op = "subscribe"], handle, cb, kw, renv, sout, hub)

\* the same function run by a second process: it has its own
\* active_subscriptions, loaded when it started, and the same file
PeerSubscribe(handle, cb, kw, renv, sout, hub) ==
    LET channel_id == get_channel_id_from_handle(handle, renv)
        call == [Quiet EXCEPT !.op = "peer_subscribe", !.chan = channel_id,
                              !.resolves = 1]
    IN  IF ~Truthy(channel_id)
        THEN /\ last' = [call EXCEPT !.ret = "failure"]
             /\ UNCHANGED <<subsFile, peer_subscriptions>>
        ELSE IF peer_subscriptions.kind # "dict"
        THEN /\ last' = [call EXCEPT !.ret = "raised", !.raised = TRUE]
             /\ UNCHANGED <<subsFile, peer_subscriptions>>
        ELSE LET new == SetItem(peer_subscriptions, channel_id, Sub(kw, cb))
             IN  /\ peer_subscriptions' = new
                 /\ subsFile' = save_subscriptions(new, subsFile, sout)
                 /\ last' = [call EXCEPT
                        !.kw = kw, !.cb = cb,
                        !.before = Before(peer_subscriptions, channel_id, Sub(kw, cb)),
                        !.hub = hub, !.topic = channel_id,
                        !.ret = IF hub = "2xx" THEN "success" ELSE "failure"]

(***************************************************************************)
(* setup_youtube_notifications                                             *)
(***************************************************************************)
NoCallback     == ""
SetupHandles   == {None, HandleA, HandleB}
SetupKeywords  == {NoneKw, "", "launch"}
SetupCallbacks == {NoCallback, "cb1"}
PollEnds       == {"done", "raised"}

\* a setup that answers a call without handle and keyword with a failure result
Setup_Mut(handle, keyword, callback_url, renv, sout, hub, pend) ==
    LET base == [Quiet EXCEPT !.op = "setup", !.ident = handle, !.kw = keyword,
                              !.cb = callback_url]
    IN  IF ~Truthy(handle) /\ ~TruthyKw(keyword)
        THEN /\ last' = [base EXCEPT !.ret = "failure"]
             /\ UNCHANGED <<subsFile, active_subscriptions, pc>>
        ELSE IF Truthy(handle)
        THEN /\ IF callback_url = NoCallback
                THEN /\ last' = [base EXCEPT !.ret = "failure"]
                     /\ UNCHANGED <<subsFile, active_subscriptions>>
                ELSE SubscribeCall(base, handle, callback_url,
                                   IF TruthyKw(keyword) THEN keyword ELSE NoneKw,
                                   renv, sout, hub)
             /\ UNCHANGED pc
        ELSE /\ pc' = pend
             /\ last' = [base EXCEPT !.ret = IF pend = "done" THEN "success" ELSE "raised",
                                     !.raised = (pend = "raised")]
             /\ UNCHANGED <<subsFile, active_subscriptions>>

\* neither handle nor keyword raises ValueError; a handle needs a callback URL
\* and goes on to subscribe_to_youtube_channel (without a keyword the keyword
\* passed on is None); a keyword alone runs the poller to its end, which is a
\* return or an escaping KeyboardInterrupt, and then answers success
Setup(handle, keyword, callback_url, renv, sout, hub, pend) ==
    LET base == [Quiet EXCEPT !.op = "setup", !.ident = handle, !.kw = keyword,
                              !.cb = callback_url]
    IN  IF ~Truthy(handle) /\ ~TruthyKw(keyword)
        THEN /\ last' = [base EXCEPT !.ret = "raised", !.raised = TRUE]
             /\ UNCHANGED <<subsFile, active_subscriptions, pc>>
        ELSE IF Truthy(handle)
        THEN /\ IF callback_url = NoCallback
                THEN /\ last' = [base EXCEPT !.ret = "failure"]
                     /\ UNCHANGED <<subsFile, active_subscriptions>>
                ELSE SubscribeCall(base, handle, callback_url,
                                   IF TruthyKw(keyword) THEN keyword ELSE NoneKw,
                                   renv, sout, hub)
             /\ UNCHANGED pc
        ELSE /\ pc' = pend
             /\ last' = [base EXCEPT !.ret = IF pend = "done" THEN "success" ELSE "raised",
                                     !.raised = (pend = "raised")]
             /\ UNCHANGED <<subsFile, active_subscriptions>>

(***************************************************************************)
(* unsubscribe_from_youtube_channel                                        *)
(***************************************************************************)
\* an unsubscribe that rewrites the file whether or not it removed an entry
Unsubscribe_Mut(channel_identifier, cb, renv, sout, hub) ==
    LET byId     == StartsWithUC(channel_identifier)
        resolved == get_channel_id_from_handle(channel_identifier, renv)
        channel_id == IF byId THEN channel_identifier ELSE resolved
        call == [Quiet EXCEPT !.op = "unsubscribe", !.ident = channel_identifier,
                              !.resolves = IF byId THEN 0 ELSE 1]
        sent == [call EXCEPT !.chan = channel_id, !.hub = hub, !.topic = channel_id,
                             !.before = IF Contains(active_subscriptions, channel_id)
                                        THEN "different" ELSE "absent"]
    IN  IF ~byId /\ ~Truthy(resolved)
        THEN /\ last' = [call EXCEPT !.ret = "False"]
             /\ UNCHANGED <<subsFile, active_subscriptions>>
        ELSE IF hub # "2xx"
        THEN /\ last' = [sent EXCEPT !.ret = "False"]
             /\ UNCHANGED <<subsFile, active_subscriptions>>
        ELSE IF ~Contains(active_subscriptions, channel_id)
        THEN /\ last' = [sent EXCEPT !.ret = "True"]
             /\ subsFile' = save_subscriptions(active_subscriptions, subsFile, sout)
             /\ UNCHANGED active_subscriptions
        ELSE IF active_subscriptions.kind # "dict"
        THEN \* del on a list with a str index raises TypeError, caught below
             /\ last' = [sent EXCEPT !.ret = "False"]
             /\ UNCHANGED <<subsFile, active_subscriptions>>
        ELSE LET new == DelItem(active_subscriptions, channel_id)
             IN  /\ active_subscriptions' = new
                 /\ subsFile' = save_subscriptions(new, subsFile, sout)
                 /\ last' = [sent EXCEPT !.ret = "True"]

Unsubscribe(channel_identifier, cb, renv, sout, hub) ==
    LET byId     == StartsWithUC(channel_identifier)
        resolved == get_channel_id_from_handle(channel_identifier, renv)
        channel_id == IF byId THEN channel_identifier ELSE resolved
        call == [Quiet EXCEPT !.op = "unsubscribe", !.ident = channel_identifier,
                              !.resolves = IF byId THEN 0 ELSE 1]
        sent == [call EXCEPT !.chan = channel_id, !.hub = hub, !.topic = channel_id,
                             !.before = IF Contains(active_subscriptions, channel_id)
                                        THEN "different" ELSE "absent"]
    IN  IF ~byId /\ ~Truthy(resolved)
        THEN /\ last' = [call EXCEPT !.ret = "False"]
             /\ UNCHANGED <<subsFile, active_subscriptions>>
        ELSE IF hub # "2xx"
        THEN /\ last' = [sent EXCEPT !.ret = "False"]
             /\ UNCHANGED <<subsFile, active_subscriptions>>
        ELSE IF ~Contains(active_subscriptions, channel_id)
        THEN /\ last' = [sent EXCEPT !.ret = "True"]
             /\ UNCHANGED <<subsFile, active_subscriptions>>
        ELSE IF active_subscriptions.kind # "dict"
        THEN \* del on a list with a str index raises TypeError, caught below
             /\ last' = [sent EXCEPT !.ret = "False"]
             /\ UNCHANGED <<subsFile, active_subscriptions>>
        ELSE LET new == DelItem(active_subscriptions, channel_id)
             IN  /\ active_subscriptions' = new
                 /\ subsFile' = save_subscriptions(new, subsFile, sout)
                 /\ last' = [sent EXCEPT !.ret = "True"]

(***************************************************************************)
(* youtube_webhook                                                         *)
(***************************************************************************)
\* a handler that echoes any challenge parameter, the empty one too
WebhookGet_Mut(challenge) ==
    LET call == [Quiet EXCEPT !.op = "GET", !.challenge = challenge]
    IN  /\ last' = IF challenge # NoChallenge
                   THEN [call EXCEPT !.status = 200, !.body = challenge,
                                     !.mimetype = "text/plain"]
                   ELSE [call EXCEPT !.status = 400, !.body = "Invalid request",
                                     !.mimetype = "text/html"]
        /\ UNCHANGED <<subsFile, active_subscriptions>>

WebhookGet(challenge) ==
    LET call == [Quiet EXCEPT !.op = "GET", !.challenge = challenge]
    IN  /\ last' = IF challenge # NoChallenge /\ challenge # ""
                   THEN [call EXCEPT !.status = 200, !.body = challenge,
                                     !.mimetype = "text/plain"]
                   ELSE [call EXCEPT !.status = 400, !.body = "Invalid request",
                                     !.mimetype = "text/html"]
        /\ UNCHANGED <<subsFile, active_subscriptions>>

\* a lookup in the map the process loaded at import
PushStore_Mut == active_subscriptions

\* subs = load_subscriptions(): the file is read again at every push
PushStore == load_subscriptions(subsFile)

\* whether the handler gets as far as the keyword check
ReachesCheck(b, subs) ==
    /\ b.xml /\ EntryTruthy(b) /\ ~FieldMissing(b)
    /\ Contains(subs, b.channelId)
    /\ subs.kind = "dict"
    /\ subs.ents[b.channelId].shape = "obj"
    /\ TruthyKw(subs.ents[b.channelId].keyword)

WebhookPost(b, tenv) ==
    LET call == [Quiet EXCEPT !.op = "POST", !.push = b]
        subs == PushStore
        ok   == [call EXCEPT !.status = 200, !.body = "OK"]
        err  == [call EXCEPT !.status = 500, !.body = "Error"]
    IN  /\ UNCHANGED <<subsFile, active_subscriptions>>
        /\ last' =
             IF ~b.xml THEN err
             ELSE IF ~EntryTruthy(b) THEN ok
             ELSE IF FieldMissing(b) THEN err
             ELSE IF ~Contains(subs, b.channelId) THEN ok
             ELSE IF subs.kind # "dict" THEN err
             ELSE IF subs.ents[b.channelId].shape # "obj" THEN err
             ELSE LET keyword == subs.ents[b.channelId].keyword
                  IN  IF ~TruthyKw(keyword) THEN ok
                      ELSE [ok EXCEPT !.checks = 1, !.checkVid = b.videoId,
                                      !.checkKw = keyword, !.transcript = tenv,
                                      !.matched = check_video_for_keyword(
                                                      b.videoId, keyword, tenv)]

(***************************************************************************)
(* The environment of the subscription side                                *)
(***************************************************************************)
\* another process or an editor rewrites the subscriptions file
ExternalEdit(f) ==
    /\ subsFile' = f
    /\ last' = [Quiet EXCEPT !.op = "edit"]
    /\ UNCHANGED active_subscriptions

\* the script is started again: the module-level load runs
Restart ==
    /\ active_subscriptions' = load_subscriptions(subsFile)
    /\ last' = [Quiet EXCEPT !.op = "restart"]
    /\ UNCHANGED subsFile

(***************************************************************************)
(* Seen-item store                                                         *)
(***************************************************************************)
\* the seen-items file: kind "list" is a JSON array of ids, kind "none" a file
\* json.load cannot read (missing, truncated, unreadable)
NoSeenFile    == [kind |-> "none", ids |-> {}]
SeenList(S)   == [kind |-> "list", ids |-> S]

load_seen_videos(file) ==
    IF file.kind = "none" THEN {} ELSE file.ids

\* open(..., "w") truncates; a failure while dumping leaves a truncated file
save_seen_videos(seen, file, out) ==
    CASE out = "ok"          -> SeenList(seen)
      [] out = "open_fails"  -> file
      [] out = "write_fails" -> NoSeenFile

(***************************************************************************)
(* poll_youtube_for_keyword                                                *)
(***************************************************************************)
MaxItems    == 2    \* items in one search response
MaxCycles   == 3    \* search requests over the whole behaviour
MaxRestarts == 1    \* process restarts

\* an item of the search response; snippet is FALSE when item['snippet'] lacks
\* a field the loop body reads
ItemSet   == [id : Videos, snippet : BOOLEAN]
NoItem    == [id |-> "", snippet |-> FALSE]
Responses == UNION {[1..n -> ItemSet] : n \in 0..MaxItems}

Zero == [v \in Videos |-> 0]
Hist0 ==
    [notified |-> Zero,       \* notifications emitted per id, over all runs
     runNotified |-> Zero,    \* ... in the current run
     runWrites |-> Zero,      \* writes of the seen file triggered per id, this run
     runReturned |-> Zero,    \* cycles of this run whose response held the id
     loaded |-> {},           \* the seen set the current process loaded at start
     runFailed |-> 0,         \* search requests of this run that failed
     cycles |-> 0, restarts |-> 0]

Ids(resp) == {resp[i].id : i \in DOMAIN resp}

\* a membership test that never finds the id
AlreadySeen_Mut(video_id, seen) == FALSE

\* video_id in seen_videos
AlreadySeen(video_id, seen) == video_id \in seen

\* the function is entered: it returns at once without an API key
PollEnter(key) ==
    /\ pc = "idle"
    /\ pc' = IF key THEN "top" ELSE "done"
    /\ UNCHANGED <<seenFile, seen_videos, stop_polling, items, cur, hist>>

\* while not stop_polling
PollTop ==
    /\ pc = "top"
    /\ pc' = IF stop_polling THEN "done" ELSE "request"
    /\ UNCHANGED <<seenFile, seen_videos, stop_polling, items, cur, hist>>

\* requests.get, raise_for_status, response.json: the request of one cycle fails
PollRequestFails ==
    /\ pc = "request"
    /\ hist.cycles < MaxCycles
    /\ pc' = "errsleep"
    /\ hist' = [hist EXCEPT !.cycles = @ + 1, !.runFailed = @ + 1]
    /\ UNCHANGED <<seenFile, seen_videos, stop_polling, items, cur>>

\* ... or answers with data['items']
PollResponse(resp) ==
    /\ pc = "request"
    /\ hist.cycles < MaxCycles
    /\ pc' = "loop"
    /\ items' = resp
    /\ hist' = [hist EXCEPT !.cycles = @ + 1,
                            !.runReturned = [v \in Videos |->
                                IF v \in Ids(resp) THEN @[v] + 1 ELSE @[v]]]
    /\ UNCHANGED <<seenFile, seen_videos, stop_polling, cur>>

\* the for statement takes the next item; a seen one is skipped, a new one is
\* added to seen_videos
PollNextItem ==
    /\ pc = "loop"
    /\ IF items = <<>>
       THEN /\ pc' = "sleep"
            /\ UNCHANGED <<seen_videos, items, cur>>
       ELSE IF AlreadySeen(Head(items).id, seen_videos)
       THEN /\ items' = Tail(items)
            /\ UNCHANGED <<pc, seen_videos, cur>>
       ELSE /\ seen_videos' = seen_videos \cup {Head(items).id}
            /\ cur' = Head(items)
            /\ items' = Tail(items)
            /\ pc' = "marked"
    /\ UNCHANGED <<seenFile, stop_polling, hist>>

\* save_seen_videos()
PollSave(out) ==
    /\ pc = "marked"
    /\ seenFile' = save_seen_videos(seen_videos, seenFile, out)
    /\ hist' = [hist EXCEPT !.runWrites[cur.id] = @ + 1]
    /\ pc' = "saved"
    /\ UNCHANGED <<seen_videos, stop_polling, items, cur>>

\* the snippet is read and the notification printed; a missing snippet field
\* raises KeyError, which ends the cycle in the except clause
PollNotify ==
    /\ pc = "saved"
    /\ IF cur.snippet
       THEN /\ hist' = [hist EXCEPT !.notified[cur.id] = @ + 1,
                                    !.runNotified[cur.id] = @ + 1]
            /\ pc' = "loop"
            /\ UNCHANGED items
       ELSE /\ pc' = "errsleep"
            /\ items' = <<>>
            /\ UNCHANGED hist
    /\ cur' = NoItem
    /\ UNCHANGED <<seenFile, seen_videos, stop_polling>>

\* an except clause that leaves the loop instead of sleeping
PollSleep_Mut ==
    /\ pc \in {"sleep", "errsleep"}
    /\ pc' = IF pc = "errsleep" THEN "done" ELSE "top"
    /\ UNCHANGED <<seenFile, seen_videos, stop_polling, items, cur, hist>>

\* time.sleep(20) at the end of the try body, or in the except clause
PollSleep ==
    /\ pc \in {"sleep", "errsleep"}
    /\ pc' = "top"
    /\ UNCHANGED <<seenFile, seen_videos, stop_polling, items, cur, hist>>

\* Ctrl+C: inside the try body it sets the flag and leaves the loop; at the
\* while test or in the except clause nothing catches it
Interrupt ==
    /\ pc \in {"top", "request", "loop", "marked", "saved", "sleep", "errsleep"}
    /\ IF pc \in {"top", "errsleep"}
       THEN pc' = "raised" /\ UNCHANGED stop_polling
       ELSE pc' = "done" /\ stop_polling' = TRUE
    /\ items' = <<>>
    /\ cur' = NoItem
    /\ UNCHANGED <<seenFile, seen_videos, hist>>

\* another thread sets the flag
SetStop ==
    /\ pc \notin {"idle", "done", "raised", "dead"}
    /\ ~stop_polling
    /\ stop_polling' = TRUE
    /\ UNCHANGED <<seenFile, seen_videos, pc, items, cur, hist>>

\* the process dies; while the file is being rewritten it may be left truncated
Crash(truncated) ==
    /\ pc \notin {"idle", "dead"}
    /\ pc' = "dead"
    /\ seenFile' = IF pc = "marked" /\ truncated THEN NoSeenFile ELSE seenFile
    /\ items' = <<>>
    /\ cur' = NoItem
    /\ UNCHANGED <<seen_videos, stop_polling, hist>>

\* the script is started again: module state is rebuilt, the seen set loaded
PollRestart ==
    /\ pc \in {"done", "raised", "dead"}
    /\ hist.restarts < MaxRestarts
    /\ seen_videos' = load_seen_videos(seenFile)
    /\ stop_polling' = FALSE
    /\ pc' = "idle"
    /\ items' = <<>>
    /\ cur' = NoItem
    /\ hist' = [hist EXCEPT !.restarts = @ + 1,
                            !.runNotified = Zero, !.runWrites = Zero,
                            !.runReturned = Zero, !.runFailed = 0,
                            !.loaded = load_seen_videos(seenFile)]
    /\ UNCHANGED seenFile

(***************************************************************************)
(* src/notif.py: monitor_twitter and the rules of the tweet filter service *)
(***************************************************************************)
MaxRules == 2

TwHandles  == {None, <<"@", "a">>, <<"a">>}
TwKeywords == {NoneKw, "Test"}
TwOutcomes == {"ok", "not_ok"}

RECURSIVE LStripAt(_)
\* handle.lstrip('@')
LStripAt(h) == IF h # <<>> /\ Head(h) = "@" THEN LStripAt(Tail(h)) ELSE h

\* keyword.lower()
Lower(k) == IF k = "Test" THEN "test" ELSE k

\* ' '.join(rule_parts): 'from:<handle without @>' and the keyword, each only
\* when given
RuleValue(handle, keyword) ==
    [from |-> IF Truthy(handle) THEN LStripAt(handle) ELSE None,
     word |-> IF TruthyKw(keyword) THEN keyword ELSE NoneKw]

\* f'monitor_{handle or keyword}': the handle as given, with its '@'
RuleTag(handle, keyword) ==
    [h |-> handle, k |-> IF Truthy(handle) THEN NoneKw ELSE keyword]

\* get_rules: a response that is not ok reads as no rules
get_rules(get) == IF get = "ok" THEN rules ELSE <<>>

\* the position of the first rule with the tag or the value, 0 for None
find_rule_by_tag_or_value(fetched, tag, value) ==
    LET hits == {i \in DOMAIN fetched :
                    fetched[i].tag = tag \/ fetched[i].value = value}
    IN  IF hits = {} THEN 0 ELSE CHOOSE i \in hits : \A j \in hits : i <= j

TwQuiet ==
    [called |-> FALSE, handle |-> None, keyword |-> NoneKw, same |-> TRUE,
     gets |-> 0, adds |-> 0, updates |-> 0, found |-> FALSE, raised |-> FALSE]

\* get is the answer to get_rules ("raises" for a transport error), add and
\* upd the answers to add_rule and update_rule
monitor_twitter(handle, keyword, key, get, add, upd) ==
    LET rule_value == RuleValue(handle, keyword)
        rule_tag   == RuleTag(handle, keyword)
        existing   == find_rule_by_tag_or_value(get_rules(get), rule_tag, rule_value)
        base == [TwQuiet EXCEPT !.called = TRUE, !.handle = handle,
                    !.keyword = keyword,
                    !.same = (~twcall.called
                              \/ (/\ twcall.same /\ twcall.handle = handle
                                  /\ twcall.keyword = keyword))]
        active == [tag |-> rule_tag, value |-> rule_value, is_effect |-> 1]
    IN  /\ monitor' = [handle |-> LStripAt(handle), keyword |-> Lower(keyword)]
        /\ IF ~key \/ (~Truthy(handle) /\ ~TruthyKw(keyword))
           THEN twcall' = base /\ UNCHANGED rules
           ELSE IF get = "raises"
           THEN /\ twcall' = [base EXCEPT !.gets = 1, !.raised = TRUE]
                /\ UNCHANGED rules
           ELSE IF existing # 0
           THEN /\ twcall' = [base EXCEPT !.gets = 1, !.found = TRUE, !.updates = 1]
                /\ rules' = IF upd = "ok"
                            THEN [rules EXCEPT ![existing] = active]
                            ELSE rules
           ELSE IF add # "ok"
           THEN /\ twcall' = [base EXCEPT !.gets = 1, !.adds = 1]
                /\ UNCHANGED rules
           ELSE /\ Len(rules) < MaxRules
                /\ twcall' = [base EXCEPT !.gets = 1, !.adds = 1, !.updates = 1]
                /\ rules' = Append(rules,
                                IF upd = "ok" THEN active
                                ELSE [active EXCEPT !.is_effect = 0])

(***************************************************************************)
(* The poller in time: the query window against the length of a cycle      *)
(***************************************************************************)
WindowSeconds == 20    \* timedelta(seconds=20)
SleepSeconds  == 20    \* time.sleep(20)
Tick          == 5     \* the grain of the clock, in seconds
MaxLatency    == 10    \* the longest a search request takes, in seconds
MaxTime       == 70    \* the clock stops here

TheItem == [id |-> "v1", snippet |-> TRUE]

Win0 ==
    [now |-> 0,            \* the clock, in seconds since the poller started
     after |-> 0,          \* publishedAfter of the current cycle
     served |-> FALSE,     \* upstream has evaluated the current query
     result |-> <<>>,      \* ... with this answer
     lat |-> 0,            \* seconds the current request has taken so far
     published |-> FALSE,  \* the item exists upstream
     pub |-> 0,            \* ... published at this time
     covered |-> FALSE]    \* some query's window held the item's publication time

\* publishedAfter is inclusive; the query sees what exists when it is evaluated
InWindow(p, after, at) == after <= p /\ p <= at

\* the while test, and seconds_20 = now - 20 s at the top of the try body
WinTop ==
    /\ PollTop
    /\ win' = IF stop_polling THEN win
              ELSE [win EXCEPT !.after = win.now - WindowSeconds]

\* upstream evaluates the search for the window the request carries
WinServe ==
    /\ pc = "request"
    /\ ~win.served
    /\ LET hit == win.published /\ InWindow(win.pub, win.after, win.now)
       IN  win' = [win EXCEPT !.served = TRUE,
                              !.result = IF hit THEN <<TheItem>> ELSE <<>>,
                              !.covered = @ \/ hit]
    /\ UNCHANGED pollVars

\* requests.get has not returned yet
WinLatency ==
    /\ pc = "request"
    /\ win.served
    /\ win.lat + Tick <= MaxLatency
    /\ win.now + Tick <= MaxTime
    /\ win' = [win EXCEPT !.now = @ + Tick, !.lat = @ + Tick]
    /\ UNCHANGED pollVars

\* requests.get returns the answer
WinResponse ==
    /\ win.served
    /\ PollResponse(win.result)
    /\ win' = [win EXCEPT !.served = FALSE, !.result = <<>>, !.lat = 0]

\* time.sleep(20) at the end of the try body
WinSleep ==
    /\ PollSleep
    /\ win.now + SleepSeconds <= MaxTime
    /\ win' = [win EXCEPT !.now = @ + SleepSeconds]

\* a video matching the keyword is published while the poller runs
Publish ==
    /\ pc \notin {"idle", "done", "raised", "dead"}
    /\ ~win.published
    /\ win' = [win EXCEPT !.published = TRUE, !.pub = win.now]
    /\ UNCHANGED pollVars

Init ==
    /\ subsFile = NoFile
    /\ active_subscriptions = load_subscriptions(subsFile)
    /\ last = Quiet
    /\ seenFile = NoSeenFile
    /\ seen_videos = load_seen_videos(seenFile)
    /\ stop_polling = FALSE
    /\ pc = "idle"
    /\ items = <<>>
    /\ cur = NoItem
    /\ hist = Hist0
    /\ peer_subscriptions = load_subscriptions(subsFile)
    /\ rules = <<>>
    /\ monitor = [handle |-> None, keyword |-> NoneKw]
    /\ twcall = TwQuiet
    /\ win = Win0

\* the outcomes of the save and of the hub request are drawn only where the
\* call gets that far
DoSubscribe ==
    /\ \E handle \in {HandleA, HandleB}, renv \in ResolverEnv :
          IF ~Truthy(get_channel_id_from_handle(handle, renv))
          THEN Subscribe(handle, "cb1", NoneKw, renv, "ok", "2xx")
          ELSE \E cb \in Callbacks, kw \in Keywords,
                  sout \in SaveOutcomes, hub \in HubOutcomes :
                  Subscribe(handle, cb, kw, renv, sout, hub)
    /\ UNCHANGED <<pollVars, peerVars, twVars, winVars>>

DoUnsubscribe ==
    /\ \E ident \in Identifiers :
       \E renv \in IF StartsWithUC(ident) THEN {"found"} ELSE ResolverEnv :
          IF ~StartsWithUC(ident) /\ ~Truthy(get_channel_id_from_handle(ident, renv))
          THEN Unsubscribe(ident, "cb1", renv, "ok", "2xx")
          ELSE \/ \E hub \in HubOutcomes \ {"2xx"} :
                     Unsubscribe(ident, "cb1", renv, "ok", hub)
               \/ \E sout \in SaveOutcomes :
                     Unsubscribe(ident, "cb1", renv, sout, "2xx")
    /\ UNCHANGED <<pollVars, peerVars, twVars, winVars>>

DoGet ==
    /\ \E challenge \in Challenges : WebhookGet(challenge)
    /\ UNCHANGED <<pollVars, peerVars, twVars, winVars>>

\* the transcript service is drawn only where the handler calls it
DoPost ==
    /\ \E b \in Bodies :
          IF ReachesCheck(b, PushStore)
          THEN \E tenv \in TranscriptEnv : WebhookPost(b, tenv)
          ELSE WebhookPost(b, "miss")
    /\ UNCHANGED <<pollVars, peerVars, twVars, winVars>>

DoEdit ==
    /\ \E f \in EditStates : ExternalEdit(f)
    /\ UNCHANGED <<pollVars, peerVars, twVars, winVars>>

DoRestart ==
    /\ Restart
    /\ UNCHANGED <<pollVars, peerVars, twVars, winVars>>

NextSub ==
    \/ DoSubscribe
    \/ DoUnsubscribe
    \/ DoGet
    \/ DoPost
    \/ DoEdit
    \/ DoRestart

SpecSub == Init /\ [][NextSub]_vars

\* the outcomes of the resolver, the save, the hub and the poller are drawn
\* only on the branch that uses them
DoSetup ==
    /\ \E handle \in SetupHandles, keyword \in SetupKeywords,
          callback_url \in SetupCallbacks :
          IF Truthy(handle) /\ callback_url # NoCallback
          THEN \E renv \in ResolverEnv :
                  IF ~Truthy(get_channel_id_from_handle(handle, renv))
                  THEN Setup(handle, keyword, callback_url, renv, "ok", "2xx", "done")
                  ELSE \E sout \in SaveOutcomes, hub \in HubOutcomes :
                          Setup(handle, keyword, callback_url, renv, sout, hub, "done")
          ELSE IF ~Truthy(handle) /\ TruthyKw(keyword)
          THEN \E pend \in PollEnds :
                  Setup(handle, keyword, callback_url, "found", "ok", "2xx", pend)
          ELSE Setup(handle, keyword, callback_url, "found", "ok", "2xx", "done")
    /\ UNCHANGED <<seenFile, seen_videos, stop_polling, items, cur, hist,
                   peerVars, twVars, winVars>>

\* two processes on one subscriptions file
DoOwnSubscribe ==
    /\ \E handle \in {HandleA, HandleB}, kw \in Keywords,
          sout \in SaveOutcomes, hub \in {"2xx", "http_error"} :
          Subscribe(handle, "cb1", kw, "found", sout, hub)
    /\ UNCHANGED <<pollVars, peerVars, twVars, winVars>>

DoOwnUnsubscribe ==
    /\ \E ident \in Chan, sout \in SaveOutcomes :
          Unsubscribe(ident, "cb1", "found", sout, "2xx")
    /\ UNCHANGED <<pollVars, peerVars, twVars, winVars>>

DoPeerSubscribe ==
    /\ \E handle \in {HandleA, HandleB}, kw \in Keywords,
          sout \in SaveOutcomes, hub \in {"2xx", "http_error"} :
          PeerSubscribe(handle, "cb2", kw, "found", sout, hub)
    /\ UNCHANGED <<active_subscriptions, pollVars, twVars, winVars>>

NextTwo ==
    \/ DoOwnSubscribe
    \/ DoOwnUnsubscribe
    \/ DoPeerSubscribe

SpecTwo == Init /\ [][NextTwo]_vars

DoMonitor ==
    /\ \E handle \in TwHandles, keyword \in TwKeywords, key \in BOOLEAN,
          get \in TwOutcomes \cup {"raises"}, add \in TwOutcomes,
          upd \in TwOutcomes :
          monitor_twitter(handle, keyword, key, get, add, upd)
    /\ UNCHANGED <<subVars, pollVars, peerVars, winVars>>

NextTw ==
    \/ DoMonitor

SpecTw == Init /\ [][NextTw]_vars

NextSetup ==
    \/ DoSetup
    \/ DoEdit
    \/ DoRestart

SpecSetup == Init /\ [][NextSetup]_vars

DoEnter     == (\E key \in BOOLEAN : PollEnter(key)) /\ UNCHANGED <<subVars, peerVars, twVars, winVars>>
DoTop       == PollTop /\ UNCHANGED <<subVars, peerVars, twVars, winVars>>
DoFail      == PollRequestFails /\ UNCHANGED <<subVars, peerVars, twVars, winVars>>
DoResponse  == (\E resp \in Responses : PollResponse(resp)) /\ UNCHANGED <<subVars, peerVars, twVars, winVars>>
DoNextItem  == PollNextItem /\ UNCHANGED <<subVars, peerVars, twVars, winVars>>
DoSave      == (\E out \in SaveOutcomes : PollSave(out)) /\ UNCHANGED <<subVars, peerVars, twVars, winVars>>
DoNotify    == PollNotify /\ UNCHANGED <<subVars, peerVars, twVars, winVars>>
DoSleep     == PollSleep /\ UNCHANGED <<subVars, peerVars, twVars, winVars>>
DoInterrupt == Interrupt /\ UNCHANGED <<subVars, peerVars, twVars, winVars>>
DoSetStop   == SetStop /\ UNCHANGED <<subVars, peerVars, twVars, winVars>>
DoCrash     == (\E truncated \in BOOLEAN : Crash(truncated)) /\ UNCHANGED <<subVars, peerVars, twVars, winVars>>
DoPollRestart == PollRestart /\ UNCHANGED <<subVars, peerVars, twVars, winVars>>

NextPoll ==
    \/ DoEnter
    \/ DoTop
    \/ DoFail
    \/ DoResponse
    \/ DoNextItem
    \/ DoSave
    \/ DoNotify
    \/ DoSleep
    \/ DoInterrupt
    \/ DoSetStop
    \/ DoCrash
    \/ DoPollRestart

SpecPoll == Init /\ [][NextPoll]_vars

\* time.sleep(20) returns and the while test is evaluated: the two steps
\* the interpreter takes on its own
SpecPollLive == SpecPoll /\ WF_vars(DoSleep) /\ WF_vars(DoTop)

\* the poller with its clock
DoWinTop      == WinTop /\ UNCHANGED <<subVars, peerVars, twVars>>
DoWinServe    == WinServe /\ UNCHANGED <<subVars, peerVars, twVars>>
DoWinLatency  == WinLatency /\ UNCHANGED <<subVars, peerVars, twVars>>
DoWinResponse == WinResponse /\ UNCHANGED <<subVars, peerVars, twVars>>
DoWinSleep    == WinSleep /\ UNCHANGED <<subVars, peerVars, twVars>>
DoPublish     == Publish /\ UNCHANGED <<subVars, peerVars, twVars>>

NextWin ==
    \/ DoEnter
    \/ DoWinTop
    \/ DoWinServe
    \/ DoWinLatency
    \/ DoWinResponse
    \/ DoNextItem
    \/ DoSave
    \/ DoNotify
    \/ DoWinSleep
    \/ DoPublish

SpecWin == Init /\ [][NextWin]_vars

(***************************************************************************)
(* Claims about the subscription side, checked under SpecSub               *)
(***************************************************************************)

\* C1: a subscribe call whose hub request fails (transport error or non-2xx
\* status) leaves the in-memory store and the subscriptions file as they were.
C1_Original ==
    [][(last'.op = "subscribe" /\ last'.hub \in {"http_error", "conn_error"})
         => (active_subscriptions' = active_subscriptions /\ subsFile' = subsFile)]_vars

\* C5 as stated: a GET that carries a hub.challenge parameter is answered 200,
\* text/plain, with the token as body; a GET without it is answered 400.
C5_Original ==
    last.op = "GET" =>
        IF last.challenge # NoChallenge
        THEN last.status = 200 /\ last.mimetype = "text/plain"
             /\ last.body = last.challenge
        ELSE last.status = 400

\* C5 amended: a GET with a non-empty hub.challenge is answered 200, text/plain,
\* with exactly the token as body; a GET whose hub.challenge is absent or empty
\* is answered 400; no GET changes the store or the file.
C5_Amended ==
    [][last'.op = "GET" =>
         /\ (last'.challenge \notin {NoChallenge, ""}
               => last'.status = 200 /\ last'.mimetype = "text/plain"
                  /\ last'.body = last'.challenge)
         /\ (last'.challenge \in {NoChallenge, ""} => last'.status = 400)
         /\ active_subscriptions' = active_subscriptions
         /\ subsFile' = subsFile]_vars

C5_Witness ==
    last.op = "GET" /\ last.challenge = "abc123" /\ last.status = 200
    /\ Cardinality(DOMAIN active_subscriptions.ents) > 0

\* C6: a POST is answered 200 or 500, and 500 only when reading the request
\* body raised (the XML does not parse, or a field of the entry is missing).
C6_Original ==
    last.op = "POST" =>
        /\ last.status \in {200, 500}
        /\ (last.status = 500 =>
              \/ ~last.push.xml
              \/ last.push.videoId = Absent
              \/ last.push.title = Absent
              \/ last.push.channelId = AbsentCh)

HasSub(c) ==
    LET subs == load_subscriptions(subsFile)
    IN  subs.kind = "dict" /\ c \in DOMAIN subs.ents /\ subs.ents[c].shape = "obj"

\* what C8 promises of a push for channel c and item v
C8_Promise(c, v) ==
    LET subs == load_subscriptions(subsFile)
    IN  /\ (HasSub(c) /\ subs.ents[c].keyword \notin {NoneKw, ""}
              => /\ last.checks = 1
                 /\ last.checkVid = v
                 /\ last.checkKw = subs.ents[c].keyword
                 /\ (last.matched <=> last.transcript = "hit"))
        /\ ((HasSub(c) /\ subs.ents[c].keyword \in {NoneKw, ""})
              \/ c \notin DOMAIN subs.ents
              => last.checks = 0 /\ ~last.matched)

\* C8 as stated: for a POST that references channel C and item V the keyword
\* check runs exactly once with (V, K) when the store has a non-empty keyword K
\* for C, a match is logged iff it returns true; without keyword or entry the
\* check does not run and no match is logged.
C8_Original ==
    (last.op = "POST" /\ last.push.xml /\ last.push.entry
     /\ last.push.videoId # Absent /\ last.push.channelId # AbsentCh)
    => C8_Promise(last.push.channelId, last.push.videoId)

\* C8 amended: the same, for a POST whose entry carries the video id, the
\* title and the channel id.
C8_Amended ==
    (last.op = "POST" /\ last.push.xml /\ last.push.entry
     /\ last.push.videoId # Absent /\ last.push.title # Absent
     /\ last.push.channelId # AbsentCh)
    => C8_Promise(last.push.channelId, last.push.videoId)

C8_Witness ==
    /\ last.op = "POST" /\ last.push.channelId = UC1 /\ last.push.videoId = "v1"
    /\ HasSub(UC1) /\ subsFile.ents[UC1].keyword = "launch"
    /\ last.checks = 1 /\ last.checkKw = "launch" /\ last.matched

\* C9: subscribing a channel id that already has an entry replaces that
\* entry's keyword and callback; the set of keys and every other channel's
\* entry stay as they were.
C9_Overwrite ==
    [][(/\ last'.op = "subscribe"
        /\ active_subscriptions.kind = "dict"
        /\ last'.chan \in DOMAIN active_subscriptions.ents)
       => /\ DOMAIN active_subscriptions'.ents = DOMAIN active_subscriptions.ents
          /\ Cardinality(DOMAIN active_subscriptions'.ents)
               = Cardinality(DOMAIN active_subscriptions.ents)
          /\ active_subscriptions'.ents[last'.chan]
               = [shape |-> "obj", keyword |-> last'.kw, callback_url |-> last'.cb]
          /\ \A d \in DOMAIN active_subscriptions.ents \ {last'.chan} :
                active_subscriptions'.ents[d] = active_subscriptions.ents[d]]_vars

C9_Witness ==
    /\ last.op = "subscribe" /\ last.before = "different"
    /\ last.chan = UC1 /\ last.kw = "launch" /\ last.cb = "cb2"
    /\ DOMAIN active_subscriptions.ents = {UC1, UC2}

\* C10: unsubscribe never raises; when the hub accepted the request it returns
\* True and the channel has no entry afterwards; otherwise it returns False and
\* leaves the in-memory store and the file as they were.
C10_Original ==
    [][last'.op = "unsubscribe" =>
         /\ ~last'.raised
         /\ (last'.hub = "2xx"
               => last'.ret = "True"
                  /\ last'.chan \notin DOMAIN active_subscriptions'.ents)
         /\ (last'.hub # "2xx"
               => last'.ret = "False"
                  /\ active_subscriptions' = active_subscriptions
                  /\ subsFile' = subsFile)]_vars
(***************************************************************************)
(* Claims about the poller, checked under SpecPoll                         *)
(***************************************************************************)

\* C2: within one run, once the search has returned an id in two or more
\* cycles and those cycles are over, exactly one notification was emitted for
\* the id and exactly one write of the seen file was triggered by it.
C2_Original ==
    pc = "top" =>
        \A v \in Videos :
            hist.runReturned[v] >= 2
                => hist.runNotified[v] = 1 /\ hist.runWrites[v] = 1

\* C3 as stated: over poll cycles, crashes, failed saves and restarts no id is
\* notified more than once.
C3_Original ==
    \A v \in Videos : hist.notified[v] <= 1

\* C3 amended: an id is notified only after it was marked seen in memory and a
\* write of the seen file was attempted for it; within one process run no id is
\* notified more than once, and a run never notifies an id that its start-up
\* load found in the seen file.
C3_Amended ==
    \A v \in Videos :
        /\ hist.runNotified[v] <= 1
        /\ (hist.runNotified[v] = 1 => v \in seen_videos /\ hist.runWrites[v] = 1)
        /\ (v \in hist.loaded => hist.runNotified[v] = 0)

C3_Witness ==
    /\ hist.restarts = 1 /\ pc = "top"
    /\ "v1" \in hist.loaded /\ hist.runReturned["v1"] = 1
    /\ hist.notified["v1"] = 1
    /\ hist.runNotified["v2"] = 1 /\ hist.runReturned["v2"] = 2

\* C4: whenever the poller is between items, every id the seen file holds has
\* had its notification emitted.
C4_Original ==
    pc \notin {"marked", "saved"} =>
        \A v \in load_seen_videos(seenFile) : hist.notified[v] >= 1
(***************************************************************************)
(* More claims about the subscription side, checked under SpecSub          *)
(***************************************************************************)

WellFormedSubs(file) ==
    file.kind = "dict" /\ \A c \in DOMAIN file.ents : file.ents[c].shape = "obj"

\* C12: the load at start-up yields a mapping, and the empty mapping for every
\* file that is not a well-formed store.
C12_Original ==
    [][last'.op = "restart" =>
         /\ active_subscriptions'.kind = "dict"
         /\ (~WellFormedSubs(subsFile) => active_subscriptions' = EmptyDict)]_vars

\* C13 as stated, for the webhook: a push for a channel whose in-memory entry
\* has a keyword invokes the keyword check, whatever the file holds.
C13_Original ==
    (/\ last.op = "POST" /\ last.push.xml /\ last.push.entry
     /\ last.push.videoId # Absent /\ last.push.title # Absent
     /\ last.push.channelId \in DOMAIN active_subscriptions.ents
     /\ active_subscriptions.kind = "dict"
     /\ active_subscriptions.ents[last.push.channelId].shape = "obj"
     /\ active_subscriptions.ents[last.push.channelId].keyword \notin {NoneKw, ""})
    => last.checks = 1

\* C13 amended: a failed save is not propagated (subscribe raises only on a
\* store that is no mapping, unsubscribe never); subscribe and unsubscribe go
\* by the in-memory map whatever the file holds: an entry of the map is removed
\* by an accepted unsubscribe and kept by a subscribe for another channel; the
\* webhook lookup goes by the file.
C13_Amended ==
    [][/\ ((last'.op = "subscribe" /\ last'.raised)
             => active_subscriptions.kind # "dict")
       /\ (last'.op = "unsubscribe" => ~last'.raised)
       /\ ((last'.op = "unsubscribe" /\ last'.hub = "2xx"
             /\ active_subscriptions.kind = "dict"
             /\ last'.chan \in DOMAIN active_subscriptions.ents)
             => (last'.ret = "True"
                 /\ DOMAIN active_subscriptions'.ents
                      = DOMAIN active_subscriptions.ents \ {last'.chan}))
       /\ ((last'.op = "subscribe" /\ last'.hub # "none")
             => \A c \in DOMAIN active_subscriptions.ents \ {last'.chan} :
                   (c \in DOMAIN active_subscriptions'.ents
                    /\ active_subscriptions'.ents[c] = active_subscriptions.ents[c]))
       /\ ((last'.op = "POST" /\ last'.status = 200
             /\ last'.push.channelId \notin DOMAIN load_subscriptions(subsFile).ents)
             => last'.checks = 0)]_vars

\* the in-memory map holds an entry the file lost to a failed save, and an
\* unsubscribe has just removed another one the file never had
C13_Witness ==
    /\ last.op = "unsubscribe" /\ last.ret = "True" /\ last.before = "different"
    /\ last.chan = UC2
    /\ subsFile = NoFile
    /\ active_subscriptions.kind = "dict"
    /\ DOMAIN active_subscriptions.ents = {UC1}

\* C14: a push is decided by the subscriptions file as it is at the time of
\* the push, whatever map the process holds in memory: no entry in the file,
\* no keyword check; a keyword in the file, one check with that keyword.
C14_FreshRead ==
    (/\ last.op = "POST" /\ last.push.xml /\ last.push.entry
     /\ last.push.videoId # Absent /\ last.push.title # Absent
     /\ last.push.channelId # AbsentCh)
    => LET c == last.push.channelId
       IN  /\ (subsFile.kind = "none" \/ c \notin DOMAIN subsFile.ents
                 => last.status = 200 /\ last.checks = 0)
           /\ (WellFormedSubs(subsFile) /\ c \in DOMAIN subsFile.ents
                 => /\ last.status = 200
                    /\ last.checks = (IF subsFile.ents[c].keyword \in {NoneKw, ""}
                                      THEN 0 ELSE 1)
                    /\ (last.checks = 1 => last.checkKw = subsFile.ents[c].keyword))

\* the file was edited after the process loaded it, and the push followed the file
C14_Witness ==
    /\ last.op = "POST" /\ last.push.channelId = UC1
    /\ last.checks = 1 /\ last.checkKw = "launch"
    /\ active_subscriptions.kind = "dict"
    /\ UC1 \in DOMAIN active_subscriptions.ents
    /\ active_subscriptions.ents[UC1] = [shape |-> "obj", keyword |-> NoneKw,
                                         callback_url |-> "cb2"]
\* C19: an identifier that starts with "UC" is used as it is, with no resolver
\* call; any other identifier is resolved with exactly one call, and the hub
\* topic is the resolved id; the key removed from the store is the channel id
\* of the hub topic.
C19_PrefixOnly ==
    [][last'.op = "unsubscribe" =>
         LET id  == last'.ident
             isUC == Len(id) >= 2 /\ SubSeq(id, 1, 2) = <<"U", "C">>
         IN  /\ (isUC => /\ last'.resolves = 0
                         /\ last'.hub # "none"
                         /\ last'.topic = id)
             /\ (~isUC => /\ last'.resolves = 1
                          /\ (last'.hub # "none" =>
                                last'.topic = (IF id = <<"@", "a">>
                                               THEN <<"U", "C", "1">>
                                               ELSE <<"U", "C", "2">>)))
             /\ DOMAIN active_subscriptions.ents \ DOMAIN active_subscriptions'.ents
                   \subseteq {last'.topic}]_vars

C19_Witness ==
    /\ last.op = "unsubscribe" /\ last.ident = <<"b">> /\ last.resolves = 1
    /\ last.topic = UC2 /\ last.ret = "True" /\ last.before = "different"
    /\ active_subscriptions.kind = "dict"
    /\ DOMAIN active_subscriptions.ents = {UC1}

(***************************************************************************)
(* Claims about setup_youtube_notifications, checked under SpecSetup       *)
(***************************************************************************)

\* C15: every call of setup_youtube_notifications that does not succeed
\* returns a failure result ({success: False, error}) and raises nothing.
C15_Original ==
    [][(last'.op = "setup" /\ last'.ret # "success")
          => (last'.ret = "failure" /\ ~last'.raised)]_vars

\* C15 as the code has it: a handle without a callback URL, a handle that
\* does not resolve and a hub request that fails each return a failure result
\* (the first without a resolver call, the second without touching the
\* store); with neither handle nor keyword the call raises ValueError and
\* changes nothing.
C15_Amended ==
    [][last'.op = "setup" =>
         LET h == last'.ident
             neither == h = <<>> /\ last'.kw \in {"<None>", ""}
         IN  /\ (neither =>
                    (/\ last'.raised /\ last'.ret = "raised"
                     /\ last'.resolves = 0 /\ last'.hub = "none"
                     /\ UNCHANGED <<subsFile, active_subscriptions>>))
             /\ ((h # <<>> /\ last'.cb = "") =>
                    (/\ last'.ret = "failure" /\ ~last'.raised
                     /\ last'.resolves = 0 /\ last'.hub = "none"
                     /\ UNCHANGED <<subsFile, active_subscriptions>>))
             /\ ((h # <<>> /\ last'.cb # "" /\ last'.chan = <<>>) =>
                    (/\ last'.ret = "failure" /\ ~last'.raised
                     /\ last'.resolves = 1 /\ last'.hub = "none"
                     /\ UNCHANGED <<subsFile, active_subscriptions>>))
             /\ (last'.hub \in {"http_error", "conn_error"} =>
                    (last'.ret = "failure" /\ ~last'.raised))]_vars

C15_Witness ==
    /\ last.op = "setup" /\ last.ident = <<>> /\ last.kw = "<None>"
    /\ last.cb = "cb1" /\ last.raised
    /\ active_subscriptions.kind = "dict"
    /\ DOMAIN active_subscriptions.ents = {UC1}

(***************************************************************************)
(* Claims about two processes on one file, checked under SpecTwo           *)
(***************************************************************************)

\* the map of the process that made the last call
WriterMap == IF last.op = "peer_subscribe" THEN peer_subscriptions
             ELSE active_subscriptions

\* C20: a subscribe that succeeds and whose save is written keeps every
\* entry the file already held, whichever process wrote it.
C20_Original ==
    [][(/\ last'.op \in {"subscribe", "peer_subscribe"}
        /\ last'.ret = "success"
        /\ subsFile' = WriterMap')
          => \A c \in DOMAIN subsFile.ents : c \in DOMAIN subsFile'.ents]_vars

\* C20 as the code has it: whenever subscribe or unsubscribe changes the
\* file, the file becomes the whole in-memory map of the calling process (or
\* is left truncated by a failed write), never a merge with what the file
\* held; an entry the other process wrote and the caller never loaded is gone.
C20_Amended ==
    [][subsFile' # subsFile =>
         (/\ last'.op \in {"subscribe", "peer_subscribe", "unsubscribe"}
          /\ subsFile' \in {WriterMap', NoFile})]_vars

C20_Witness ==
    /\ last.op = "peer_subscribe" /\ last.ret = "success"
    /\ DOMAIN active_subscriptions.ents = {UC1}
    /\ DOMAIN peer_subscriptions.ents = {UC2}
    /\ subsFile = peer_subscriptions

(***************************************************************************)
(* Claims about the poller's query window, checked under SpecWin           *)
(***************************************************************************)

\* C21: consecutive windows leave no gap: an item published while the poller
\* runs is never passed over, that is, once the window of a cycle starts
\* after the item's publication time, the window of some cycle has held it.
C21_Original ==
    (win.published /\ win.after > win.pub) => win.covered

(***************************************************************************)
(* Claims about monitor_twitter, checked under SpecTw                      *)
(***************************************************************************)

\* C18: while every call so far had the same handle and keyword, the filter
\* service holds at most one rule with the tag or the value derived from
\* them; and a call that found a rule sent no add_rule request.
C18_Original ==
    /\ (twcall.called /\ twcall.same) =>
          Cardinality({i \in DOMAIN rules :
                          \/ rules[i].tag = RuleTag(twcall.handle, twcall.keyword)
                          \/ rules[i].value = RuleValue(twcall.handle, twcall.keyword)})
             <= 1
    /\ twcall.found => (twcall.adds = 0 /\ twcall.updates = 1)

(***************************************************************************)
(* Claims about the poller's failure and cancellation paths                *)
(***************************************************************************)

\* C16: a failed search request leaves the seen set and the seen file as they
\* were, through the except clause and its sleep; and after every failed
\* request the poller reaches the next search request, unless it is cancelled
\* (stop flag, interrupt) or the process dies.
C16_Survives ==
    /\ [][(\/ pc = "request" /\ pc' = "errsleep"
           \/ pc = "errsleep" /\ pc' = "top")
          => UNCHANGED <<seen_videos, seenFile>>]_vars
    /\ ((pc = "errsleep")
          ~> (pc = "request" \/ stop_polling \/ pc \in {"raised", "dead"}))

C16_Witness ==
    /\ pc = "request" /\ ~stop_polling
    /\ hist.runFailed = 2 /\ hist.cycles = 2 /\ hist.restarts = 0

\* C17: no exception escapes poll_youtube_for_keyword when it is cancelled,
\* wherever in a cycle the interrupt arrives.
C17_Original ==
    pc # "raised"
====
